---- MODULE Spec2Model ----
(***************************************************************************)
(* Model of src/main.py: the FastAPI handlers of the multi-tenant project  *)
(* backend and the tables of the external store they read and write.       *)
(*                                                                         *)
(* Every handler is a little process: one atomic step per store call       *)
(* (each `.execute()` is a network round trip and handlers of concurrent   *)
(* requests interleave between them).  The local computation between two   *)
(* store calls belongs to the step of the store call that follows it.      *)
(***************************************************************************)
EXTENDS Naturals, Sequences, FiniteSets

VARIABLES
    users,              \* table "users": sequence of rows [clerk_id]
    projects,           \* table "projects": rows [id, name, description, clerk_id]
    project_settings,   \* table "project_settings": rows [project_id, cfg]
    chats,              \* table "chats": rows [id, title, project_id, clerk_id]
    project_documents,  \* table "project_documents": rows [id, project_id, clerk_id]
    next_project_id,    \* the store's id generator of "projects"
    next_chat_id,       \* the store's id generator of "chats"
    pc,                 \* per request slot: "idle", "done" or the next store call
    op,                 \* per request slot: the handler that runs
    arg,                \* per request slot: the request's inputs
    loc,                \* per request slot: the handler's locals
    resp,               \* per request slot: the HTTP outcome [status, message, data]
    fault,              \* per request slot: the store failure the request met
    nstore,             \* per request slot: store calls issued by the request
    pre                 \* per request slot, as the request arrived: the "users" table,
                        \* and the id of the project the slot's previous request created

vars == <<users, projects, project_settings, chats, project_documents,
          next_project_id, next_chat_id,
          pc, op, arg, loc, resp, fault, nstore, pre>>

storeVars == <<users, projects, project_settings, chats, project_documents,
               next_project_id, next_chat_id>>

\* the tables of the project API (everything but "users")
projectTables == <<projects, project_settings, chats, project_documents,
                   next_project_id, next_chat_id>>

-----------------------------------------------------------------------------
(* Bounds *)

\* number of request slots that may be in flight together
MaxProcs == 2

\* number of project rows the store's id generator hands out
MaxProjects == 2

\* number of chat rows the store's id generator hands out
MaxChats == 1

\* number of document rows the ingestion service uploads
MaxDocs == 1

Procs == 1..MaxProcs

\* the authenticated tenants (clerk ids returned by get_current_user)
Tenants == {"user_A", "user_B"}

\* marker of a missing key of a dict / of Python's None
None == "<None>"

NoResp == [status |-> 0, message |-> None, data |-> << >>]

NoLoc == [project_id |-> 0, created_project |-> << >>, project_result |-> << >>]

NoArg == [clerk_id |-> None]

-----------------------------------------------------------------------------
(* HTTP outcomes *)

Ok(message, data) == [status |-> 200, message |-> message, data |-> data]

HTTPException(status_code, detail) ==
    [status |-> status_code, message |-> detail, data |-> << >>]

-----------------------------------------------------------------------------
(* Generic table helpers *)

RECURSIVE SeqFilterOut(_, _)
\* delete: the rows of tbl whose index is not in idx, in table order
SeqFilterOut(tbl, idx) ==
    IF tbl = << >> THEN << >>
    ELSE LET n == Len(tbl)
             rest == SeqFilterOut(SubSeq(tbl, 1, n - 1), idx)
         IN  IF n \in idx THEN rest ELSE Append(rest, tbl[n])

-----------------------------------------------------------------------------
(* POST /api/users/webhook *)

\* The payloads: "type" absent or present; "data" absent, not a dict, an
\* empty dict or a dict; its "id" absent, empty, not a string, or a clerk id.
EventTypes == {None, "user.created", "user.updated"}

DataKinds == {None, "not-a-dict", "empty-dict", "dict"}

IdValues == {None, "", "not-a-str"} \cup Tenants

Payloads ==
    {[is_dict |-> TRUE, type |-> t, data |-> d, id |-> i] :
        t \in EventTypes, d \in DataKinds \ {"dict"}, i \in {None}}
    \cup
    {[is_dict |-> TRUE, type |-> t, data |-> "dict", id |-> i] :
        t \in EventTypes, i \in IdValues}
    \cup
    {[is_dict |-> FALSE, type |-> None, data |-> None, id |-> None]}

\* f"Event type '{event_type}' ignored"
IgnoredMessage(event_type) ==
    CASE event_type = None -> "Event type 'None' ignored"
      [] event_type = "user.updated" -> "Event type 'user.updated' ignored"
      [] OTHER -> "Event type ignored"

\* `not user_data or not isinstance(user_data, dict)`
BadUserData(d) == d \in {None, "empty-dict", "not-a-dict"}

\* a variant of BadClerkId that accepts the empty string:
\* `clerk_id is None or not isinstance(clerk_id, str)`
BadClerkIdNoEmpty(i) == i \in {None, "not-a-str"}

\* `not clerk_id or not isinstance(clerk_id, str)`
BadClerkId(i) == i \in {None, "", "not-a-str"}

\* a variant of WebhookValidate that checks "data" and its "id" before the
\* event type
WebhookValidateMutOrder(payload) ==
    IF ~payload.is_dict
    THEN HTTPException(400, "Invalid webhook payload format")
    ELSE IF payload.type = "user.created" /\ BadUserData(payload.data)
    THEN HTTPException(400, "Missing or invalid user data in webhook payload")
    ELSE IF BadUserData(payload.data) \/ BadClerkId(payload.id)
    THEN HTTPException(400, "Missing or invalid clerk_id in user data")
    ELSE IF payload.type # "user.created"
    THEN Ok(IgnoredMessage(payload.type), << >>)
    ELSE NoResp

\* Steps 1-4 of the handler, before any store access: the outcome they
\* return or raise, or NoResp when the handler goes on to the store.
WebhookValidate(payload) ==
    IF ~payload.is_dict
    THEN HTTPException(400, "Invalid webhook payload format")
    ELSE IF payload.type # "user.created"
    THEN Ok(IgnoredMessage(payload.type), << >>)
    ELSE IF BadUserData(payload.data)
    THEN HTTPException(400, "Missing or invalid user data in webhook payload")
    ELSE IF BadClerkId(payload.id)
    THEN HTTPException(400, "Missing or invalid clerk_id in user data")
    ELSE NoResp

\* a variant of UsersSelect without the .eq() filter
UsersSelectNoFilter(tbl, clerk_id) == tbl

\* supabase.table("users").select("clerk_id").eq("clerk_id", clerk_id)
UsersSelect(tbl, clerk_id) ==
    LET Test(r) == r.clerk_id = clerk_id IN SelectSeq(tbl, Test)

\* a store without the uniqueness constraint
UsersUniqueOff(tbl, clerk_id) == FALSE

\* The uniqueness constraint of users.clerk_id in the store's schema: the
\* insert of a second row with the same clerk_id is refused.
UsersUniqueViolation(tbl, clerk_id) ==
    \E i \in 1..Len(tbl) : tbl[i].clerk_id = clerk_id

\* supabase.table("users").insert({"clerk_id": clerk_id})
UsersInsert(tbl, clerk_id) == Append(tbl, [clerk_id |-> clerk_id])

\* The wrapping of an unexpected exception by the handler's `except Exception`
WebhookInternalError ==
    HTTPException(500, "An internal server error occurred while processing webhook")

\* What a slot remembers of the moment its request of handler o arrived:
\* the tenant rows; for a get_project_settings, the id of the project that
\* the request just before it in the slot created, and the settings that it
\* wrote; for a delete_project, the chat and document rows.
Before(p, o) ==
    [users |-> users,
     created |-> IF /\ o = "get_project_settings"
                    /\ pc[p] = "done" /\ op[p] = "create_project" /\ resp[p].status = 200
                 THEN resp[p].data[1].id
                 ELSE 0,
     updated |-> IF /\ o = "get_project_settings"
                    /\ pc[p] = "done" /\ op[p] = "update_project_settings"
                    /\ resp[p].status = 200
                 THEN <<[clerk_id |-> arg[p].clerk_id, project_id |-> arg[p].project_id,
                         cfg |-> arg[p].settings]>>
                 ELSE << >>,
     chats |-> IF o = "delete_project" THEN chats ELSE << >>,
     documents |-> IF o = "delete_project" THEN project_documents ELSE << >>]

\* A request arrives at a free slot.
Arrive(p, o, a) ==
    /\ pc[p] \in {"idle", "done"}
    /\ op' = [op EXCEPT ![p] = o]
    /\ arg' = [arg EXCEPT ![p] = a]
    /\ loc' = [loc EXCEPT ![p] = NoLoc]
    /\ fault' = [fault EXCEPT ![p] = "none"]
    /\ nstore' = [nstore EXCEPT ![p] = 0]
    /\ pre' = [pre EXCEPT ![p] = Before(p, o)]

\* The handler returns or raises.
Return(p, r) ==
    /\ pc' = [pc EXCEPT ![p] = "done"]
    /\ resp' = [resp EXCEPT ![p] = r]

\* A store call of the request in slot p, with the failure f it met.
StoreCall(p, f) ==
    /\ nstore' = [nstore EXCEPT ![p] = @ + 1]
    /\ fault' = [fault EXCEPT ![p] = IF f = "ok" THEN @ ELSE f]

\* lines 66-97: the payload checks
WebhookCall(p, payloads) ==
    \E payload \in payloads :
        /\ Arrive(p, "webhook", [clerk_id |-> None, payload |-> payload])
        /\ LET r == WebhookValidate(payload) IN
             IF r # NoResp
             THEN Return(p, r)
             ELSE /\ pc' = [pc EXCEPT ![p] = "wh_select"]
                  /\ resp' = [resp EXCEPT ![p] = NoResp]
        /\ UNCHANGED storeVars

\* lines 99-113: the idempotency lookup
WebhookSelect(p) ==
    /\ pc[p] = "wh_select"
    /\ \E f \in {"ok", "raise"} :
        /\ StoreCall(p, f)
        /\ IF f = "raise"
           THEN Return(p, WebhookInternalError)
           ELSE LET existing_user == UsersSelect(users, arg[p].payload.id) IN
                IF existing_user # << >>
                THEN Return(p, Ok("User already exists",
                                  <<[clerk_id |-> arg[p].payload.id]>>))
                ELSE /\ pc' = [pc EXCEPT ![p] = "wh_insert"]
                     /\ UNCHANGED resp
    /\ UNCHANGED <<storeVars, op, arg, loc, pre>>

\* lines 115-140: the insert
WebhookInsert(p) ==
    /\ pc[p] = "wh_insert"
    /\ LET clerk_id == arg[p].payload.id IN
       \E f \in {"ok", "empty", "raise"} :
        IF f = "ok" /\ UsersUniqueViolation(users, clerk_id)
        THEN \* the store refuses the duplicate: postgrest raises APIError
             /\ StoreCall(p, "duplicate")
             /\ Return(p, WebhookInternalError)
             /\ UNCHANGED users
        ELSE /\ StoreCall(p, f)
             /\ CASE f = "ok" ->
                       /\ users' = UsersInsert(users, clerk_id)
                       /\ Return(p, Ok("User created successfully",
                                       <<[clerk_id |-> clerk_id]>>))
                  [] f = "empty" ->
                       /\ Return(p, HTTPException(500, "Failed to create user in database"))
                       /\ UNCHANGED users
                  [] f = "raise" ->
                       /\ Return(p, WebhookInternalError)
                       /\ UNCHANGED users
    /\ UNCHANGED <<projectTables, op, arg, loc, pre>>

\* the handler, its request bodies drawn from payloads
Webhook(p, payloads) ==
    WebhookCall(p, payloads) \/ WebhookSelect(p) \/ WebhookInsert(p)

\* the well-formed 'user.created' events, one 'user.updated' event and one
\* event without an id
RacingPayloads ==
    {[is_dict |-> TRUE, type |-> "user.created", data |-> "dict", id |-> i] :
        i \in Tenants \cup {None}}
    \cup
    {[is_dict |-> TRUE, type |-> "user.updated", data |-> "dict", id |-> i] :
        i \in {"user_A"}}

-----------------------------------------------------------------------------
(* The project API: inputs *)

\* the bodies of POST /api/projects (class ProjectCreate)
ProjectInputs ==
    {[name |-> "Demo", description |-> ""],
     [name |-> "Plan", description |-> "notes"]}

\* lines 198-200: the validation of a body against class ProjectCreate: name
\* is required and may be any string, description has a default
ProjectCreateValid(body) == "name" \in DOMAIN body

\* bodies of POST /api/projects with an empty name and without a name
InvalidProjectInputs ==
    {[name |-> "", description |-> ""],
     [description |-> "notes"]}

\* the constraint "name required and non-empty" of projects, which the store
\* may or may not enforce
NameConstraintViolation(project) == project.name = ""

\* the project ids a request may carry: every id the store hands out and
\* one it never does
ReqProjectIds == 1..(MaxProjects + 1)

\* the chat ids a request may carry
ReqChatIds == 1..(MaxChats + 1)

\* a variant of DefaultSettings with the two sizes and the two weights swapped
DefaultSettingsSwapped ==
    [embedding_model |-> "text-embedding-3-large",
     rag_strategy |-> "basic",
     agent_type |-> "agentic",
     chunks_per_search |-> 5,
     final_context_size |-> 10,
     similarity_threshold |-> "0.3",
     number_of_queries |-> 5,
     reranking_enabled |-> TRUE,
     reranking_model |-> "rerank-english-v3.0",
     vector_weight |-> "0.3",
     keyword_weight |-> "0.7"]

\* lines 245-258: the default settings create_project inserts
DefaultSettings ==
    [embedding_model |-> "text-embedding-3-large",
     rag_strategy |-> "basic",
     agent_type |-> "agentic",
     chunks_per_search |-> 10,
     final_context_size |-> 5,
     similarity_threshold |-> "0.3",
     number_of_queries |-> 5,
     reranking_enabled |-> TRUE,
     reranking_model |-> "rerank-english-v3.0",
     vector_weight |-> "0.7",
     keyword_weight |-> "0.3"]

\* a body of PUT /api/projects/{id}/settings (class ProjectSettings) that
\* differs from the default in every field
CustomSettings ==
    [embedding_model |-> "text-embedding-3-small",
     rag_strategy |-> "hybrid",
     agent_type |-> "simple",
     chunks_per_search |-> 20,
     final_context_size |-> 8,
     similarity_threshold |-> "0.5",
     number_of_queries |-> 3,
     reranking_enabled |-> FALSE,
     reranking_model |-> "rerank-multilingual-v3.0",
     vector_weight |-> "0.5",
     keyword_weight |-> "0.5"]

SettingsInputs == {DefaultSettings, CustomSettings}

\* lines 203-213: the eleven fields of class ProjectSettings, none of which
\* has a default
SettingsFields ==
    {"embedding_model", "rag_strategy", "agent_type", "chunks_per_search",
     "final_context_size", "similarity_threshold", "number_of_queries",
     "reranking_enabled", "reranking_model", "vector_weight", "keyword_weight"}

\* the validation of a body against class ProjectSettings: every field is
\* required
ProjectSettingsValid(body) == SettingsFields \subseteq DOMAIN body

\* a body without one of its fields
Without(body, field) == [k \in DOMAIN body \ {field} |-> body[k]]

\* the bodies that lack exactly one field of class ProjectSettings
PartialSettingsInputs == {Without(CustomSettings, field) : field \in SettingsFields}

-----------------------------------------------------------------------------
(* The project API: the store calls *)

\* the ids of the rows of a table
Ids(tbl) == {tbl[i].id : i \in 1..Len(tbl)}

\* order("created_at", desc=True): rows are kept in insertion order
RECURSIVE Reverse(_)
Reverse(tbl) ==
    IF tbl = << >> THEN << >>
    ELSE <<tbl[Len(tbl)]>> \o Reverse(SubSeq(tbl, 1, Len(tbl) - 1))

\* table("projects").insert({name, description, clerk_id}); the store sets id
ProjectRow(id, project, clerk_id) ==
    [id |-> id, name |-> project.name, description |-> project.description,
     clerk_id |-> clerk_id]

\* table("projects").select("*").eq("clerk_id", clerk_id)
ProjectsSelectByTenant(tbl, clerk_id) ==
    LET Test(r) == r.clerk_id = clerk_id IN SelectSeq(tbl, Test)

\* a variant of ProjectsSelectOwned without the .eq("clerk_id", clerk_id) filter
ProjectsSelectById(tbl, project_id, clerk_id) ==
    LET Test(r) == r.id = project_id IN SelectSeq(tbl, Test)

\* table("projects").select("*").eq("id", project_id).eq("clerk_id", clerk_id)
ProjectsSelectOwned(tbl, project_id, clerk_id) ==
    LET Test(r) == r.id = project_id /\ r.clerk_id = clerk_id IN SelectSeq(tbl, Test)

\* a variant of ProjectsDeleteById with .lte("id", project_id)
ProjectsDeleteUpToId(tbl, project_id) ==
    SeqFilterOut(tbl, {i \in 1..Len(tbl) : tbl[i].id <= project_id})

\* table("projects").delete().eq("id", project_id): the rows left
ProjectsDeleteById(tbl, project_id) ==
    SeqFilterOut(tbl, {i \in 1..Len(tbl) : tbl[i].id = project_id})

\* a variant of ProjectsDeleteOwned that reports the rows but removes none
ProjectsDeleteOwnedKeep(tbl, project_id, clerk_id) == tbl

\* table("projects").delete().eq("id", project_id).eq("clerk_id", clerk_id):
\* the rows left
ProjectsDeleteOwned(tbl, project_id, clerk_id) ==
    SeqFilterOut(tbl, {i \in 1..Len(tbl) :
                          tbl[i].id = project_id /\ tbl[i].clerk_id = clerk_id})

\* ON DELETE CASCADE of the store's schema: the dependent rows left once the
\* projects table holds only the rows projs
Cascade(tbl, projs) ==
    LET Test(r) == r.project_id \in Ids(projs) IN SelectSeq(tbl, Test)

\* the foreign key project_id -> projects.id of the store's schema: a row
\* that references no project is refused
FkViolation(projs, project_id) == project_id \notin Ids(projs)

\* table("project_settings").insert({project_id, ...defaults})
SettingsInsert(tbl, project_id) ==
    Append(tbl, [project_id |-> project_id, cfg |-> DefaultSettings])

\* table("project_settings").select("*").eq("project_id", project_id)
SettingsSelect(tbl, project_id) ==
    LET Test(r) == r.project_id = project_id IN SelectSeq(tbl, Test)

\* a variant of SettingsUpdate that writes every field but keyword_weight
SettingsUpdatePartial(tbl, project_id, settings) ==
    [i \in 1..Len(tbl) |->
        IF tbl[i].project_id = project_id
        THEN [tbl[i] EXCEPT !.cfg = [settings EXCEPT !.keyword_weight =
                                                        tbl[i].cfg.keyword_weight]]
        ELSE tbl[i]]

\* table("project_settings").update(settings.model_dump()).eq("project_id", ...)
SettingsUpdate(tbl, project_id, settings) ==
    [i \in 1..Len(tbl) |->
        IF tbl[i].project_id = project_id
        THEN [tbl[i] EXCEPT !.cfg = settings]
        ELSE tbl[i]]

\* table("chats").select("*").eq("project_id", ..).eq("clerk_id", ..).order(desc)
ChatsSelect(tbl, project_id, clerk_id) ==
    LET Test(r) == r.project_id = project_id /\ r.clerk_id = clerk_id
    IN  Reverse(SelectSeq(tbl, Test))

\* table("chats").delete().eq("id", chat_id).eq("clerk_id", clerk_id): the
\* rows deleted
ChatsDeleted(tbl, chat_id, clerk_id) ==
    LET Test(r) == r.id = chat_id /\ r.clerk_id = clerk_id IN SelectSeq(tbl, Test)

\* a variant of ChatsDelete without the .eq("clerk_id", clerk_id)
ChatsDeleteAny(tbl, chat_id, clerk_id) ==
    SeqFilterOut(tbl, {i \in 1..Len(tbl) : tbl[i].id = chat_id})

\* ... and the rows left
ChatsDelete(tbl, chat_id, clerk_id) ==
    SeqFilterOut(tbl, {i \in 1..Len(tbl) :
                          tbl[i].id = chat_id /\ tbl[i].clerk_id = clerk_id})

\* table("project_documents").select("*").eq("project_id", ..).eq("clerk_id", ..)
DocsSelect(tbl, project_id, clerk_id) ==
    LET Test(r) == r.project_id = project_id /\ r.clerk_id = clerk_id
    IN  Reverse(SelectSeq(tbl, Test))

\* A request arrives at a free slot and its handler runs up to its first
\* store call, which meets the failure f.
ArriveCall(p, o, a, f) ==
    /\ pc[p] \in {"idle", "done"}
    /\ op' = [op EXCEPT ![p] = o]
    /\ arg' = [arg EXCEPT ![p] = a]
    /\ fault' = [fault EXCEPT ![p] = IF f = "ok" THEN "none" ELSE f]
    /\ nstore' = [nstore EXCEPT ![p] = 1]
    /\ pre' = [pre EXCEPT ![p] = Before(p, o)]

\* The handler goes on to its next store call.
Goto(p, label) ==
    /\ pc' = [pc EXCEPT ![p] = label]
    /\ resp' = [resp EXCEPT ![p] = NoResp]

-----------------------------------------------------------------------------
(* GET /api/projects *)

GetProjects(p) ==
    \E clerk_id \in Tenants, f \in {"ok", "raise"} :
        /\ ArriveCall(p, "get_projects", [clerk_id |-> clerk_id], f)
        /\ IF f = "raise"
           THEN Return(p, HTTPException(500, "Failed to retrieve the projects"))
           ELSE Return(p, Ok("Projects retrieved successfully",
                             ProjectsSelectByTenant(projects, clerk_id)))
        /\ loc' = [loc EXCEPT ![p] = NoLoc]
        /\ UNCHANGED storeVars

-----------------------------------------------------------------------------
(* POST /api/projects *)

CreateProjectInternalError ==
    HTTPException(500, "An internal server error occurred while creating project")

\* line 216: a body that class ProjectCreate does not validate is answered
\* with 422 before the handler's body runs
CreateProjectRejected(p, inputs) ==
    \E clerk_id \in Tenants, project \in inputs :
        /\ ~ProjectCreateValid(project)
        /\ Arrive(p, "create_project", [clerk_id |-> clerk_id, project |-> project])
        /\ Return(p, HTTPException(422, "Field required"))
        /\ UNCHANGED storeVars

\* lines 227-242: step 1, the insert of the project row; an insert that the
\* store refuses for a constraint raises, like any other failed call
CreateProjectInsert(p, inputs) ==
    \E clerk_id \in Tenants, project \in inputs,
       f \in {"ok", "empty", "raise", "constraint"} :
        /\ ProjectCreateValid(project)
        /\ f = "ok" => next_project_id <= MaxProjects
        /\ f = "constraint" => NameConstraintViolation(project)
        /\ ArriveCall(p, "create_project", [clerk_id |-> clerk_id, project |-> project], f)
        /\ CASE f = "ok" ->
                  LET created_project == ProjectRow(next_project_id, project, clerk_id) IN
                  /\ projects' = Append(projects, created_project)
                  /\ next_project_id' = next_project_id + 1
                  /\ loc' = [loc EXCEPT ![p] = [project_id |-> created_project.id,
                                                 created_project |-> <<created_project>>,
                                                 project_result |-> <<created_project>>]]
                  /\ Goto(p, "cp_settings")
             [] f = "empty" ->
                  /\ Return(p, HTTPException(422,
                         "Failed to create project - invalid data provided"))
                  /\ loc' = [loc EXCEPT ![p] = NoLoc]
                  /\ UNCHANGED <<projects, next_project_id>>
             [] f \in {"raise", "constraint"} ->
                  /\ Return(p, CreateProjectInternalError)
                  /\ loc' = [loc EXCEPT ![p] = NoLoc]
                  /\ UNCHANGED <<projects, next_project_id>>
        /\ UNCHANGED <<users, project_settings, chats, project_documents, next_chat_id>>

\* lines 244-272: step 2, the insert of the default settings
CreateProjectSettings(p) ==
    /\ pc[p] = "cp_settings"
    /\ \E f \in {"ok", "empty", "raise"} :
        IF f = "ok" /\ FkViolation(projects, loc[p].project_id)
        THEN \* the project is gone: the store refuses the row, postgrest raises
             /\ StoreCall(p, "fk")
             /\ Return(p, CreateProjectInternalError)
             /\ UNCHANGED project_settings
        ELSE /\ StoreCall(p, f)
             /\ CASE f = "ok" ->
                       /\ project_settings' = SettingsInsert(project_settings, loc[p].project_id)
                       /\ Return(p, Ok("Project created successfully", loc[p].created_project))
                  [] f = "empty" ->
                       /\ Goto(p, "cp_rollback")
                       /\ UNCHANGED project_settings
                  [] f = "raise" ->
                       /\ Return(p, CreateProjectInternalError)
                       /\ UNCHANGED project_settings
    /\ UNCHANGED <<users, projects, chats, project_documents, next_project_id,
                   next_chat_id, op, arg, loc, pre>>

\* lines 260-266: step 3, the compensating delete
CreateProjectRollback(p) ==
    /\ pc[p] = "cp_rollback"
    /\ \E f \in {"ok", "raise"} :
        /\ StoreCall(p, f)
        /\ IF f = "raise"
           THEN /\ Return(p, CreateProjectInternalError)
                /\ UNCHANGED <<projects, project_settings, chats, project_documents>>
           ELSE LET left == ProjectsDeleteById(projects, loc[p].project_id) IN
                /\ projects' = left
                /\ project_settings' = Cascade(project_settings, left)
                /\ chats' = Cascade(chats, left)
                /\ project_documents' = Cascade(project_documents, left)
                /\ Return(p, HTTPException(422,
                     "Failed to create project settings - project creation rolled back"))
    /\ UNCHANGED <<users, next_project_id, next_chat_id, op, arg, loc, pre>>

\* the handler, its request bodies drawn from inputs
CreateProject(p, inputs) ==
    CreateProjectInsert(p, inputs) \/ CreateProjectSettings(p) \/ CreateProjectRollback(p)

-----------------------------------------------------------------------------
(* DELETE /api/projects/{project_id} *)

DeleteProjectInternalError ==
    HTTPException(500, "An internal server error occurred while deleting project")

\* lines 295-303: step 1, the ownership check
DeleteProjectVerify(p, ids) ==
    \E clerk_id \in Tenants, project_id \in ids, f \in {"ok", "raise"} :
        /\ ArriveCall(p, "delete_project",
                      [clerk_id |-> clerk_id, project_id |-> project_id], f)
        /\ LET project_result == ProjectsSelectOwned(projects, project_id, clerk_id) IN
           IF f = "raise"
           THEN /\ Return(p, DeleteProjectInternalError)
                /\ loc' = [loc EXCEPT ![p] = NoLoc]
           ELSE IF project_result = << >>
           THEN /\ Return(p, HTTPException(404,
                     "Project not found or you don't have permission to delete it"))
                /\ loc' = [loc EXCEPT ![p] = NoLoc]
           ELSE /\ Goto(p, "dp_delete")
                /\ loc' = [loc EXCEPT ![p] = [NoLoc EXCEPT !.project_result = project_result]]
        /\ UNCHANGED storeVars

\* a variant of DeleteProjectOutcome whose 404 leaves as a 500, as it would
\* without the `except HTTPException: raise` of lines 320-321
DeleteProjectOutcomeWrapped(deleted) ==
    IF deleted = << >>
    THEN DeleteProjectInternalError
    ELSE Ok("Project deleted successfully", <<deleted[1]>>)

\* lines 308-321: the outcome of the delete that removed the rows deleted
DeleteProjectOutcome(deleted) ==
    IF deleted = << >>
    THEN HTTPException(404, "Failed to delete project - project not found")
    ELSE Ok("Project deleted successfully", <<deleted[1]>>)

\* lines 305-318: step 2, the delete, which the store cascades
DeleteProjectDelete(p) ==
    /\ pc[p] = "dp_delete"
    /\ \E f \in {"ok", "raise"} :
        /\ StoreCall(p, f)
        /\ IF f = "raise"
           THEN /\ Return(p, DeleteProjectInternalError)
                /\ UNCHANGED <<projects, project_settings, chats, project_documents>>
           ELSE LET deleted == ProjectsSelectOwned(projects, arg[p].project_id, arg[p].clerk_id)
                    left == ProjectsDeleteOwned(projects, arg[p].project_id, arg[p].clerk_id)
                IN  /\ projects' = left
                    /\ project_settings' = Cascade(project_settings, left)
                    /\ chats' = Cascade(chats, left)
                    /\ project_documents' = Cascade(project_documents, left)
                    /\ Return(p, DeleteProjectOutcome(deleted))
    /\ UNCHANGED <<users, next_project_id, next_chat_id, op, arg, loc, pre>>

\* the handler, its path parameter drawn from ids
DeleteProject(p, ids) == DeleteProjectVerify(p, ids) \/ DeleteProjectDelete(p)

-----------------------------------------------------------------------------
(* GET /api/projects/{project_id} *)

\* lines 338-350, the store having answered
GetProjectOutcome(tbl, project_id, clerk_id) ==
    LET result == ProjectsSelectOwned(tbl, project_id, clerk_id) IN
    IF result = << >>
    THEN HTTPException(404, "Project not found or you don't have permission to access it")
    ELSE Ok("Project retrieved successfully", <<result[1]>>)

GetProject(p) ==
    \E clerk_id \in Tenants, project_id \in ReqProjectIds, f \in {"ok", "raise"} :
        /\ ArriveCall(p, "get_project",
                      [clerk_id |-> clerk_id, project_id |-> project_id], f)
        /\ IF f = "raise"
           THEN Return(p, HTTPException(500,
                    "An internal server error occurred while retrieving project"))
           ELSE Return(p, GetProjectOutcome(projects, project_id, clerk_id))
        /\ loc' = [loc EXCEPT ![p] = NoLoc]
        /\ UNCHANGED storeVars

-----------------------------------------------------------------------------
(* GET /api/projects/{project_id}/chats *)

GetProjectChats(p) ==
    \E clerk_id \in Tenants, project_id \in ReqProjectIds, f \in {"ok", "raise"} :
        /\ ArriveCall(p, "get_project_chats",
                      [clerk_id |-> clerk_id, project_id |-> project_id], f)
        /\ IF f = "raise"
           THEN Return(p, HTTPException(500,
                    "An internal server error occurred while retrieving project chats"))
           ELSE Return(p, Ok("Project chats retrieved successfully",
                             ChatsSelect(chats, project_id, clerk_id)))
        /\ loc' = [loc EXCEPT ![p] = NoLoc]
        /\ UNCHANGED storeVars

-----------------------------------------------------------------------------
(* GET /api/projects/{project_id}/settings: the route registered first,    *)
(* lines 384-413; the second registration of the same path, lines 477-496, *)
(* is never dispatched to.                                                 *)

\* lines 393-405, the store having answered
GetProjectSettingsOutcome(tbl, project_id, clerk_id) ==
    LET settings_result == SettingsSelect(tbl, project_id) IN
    IF settings_result = << >>
    THEN HTTPException(404, "Project settings not found")
    ELSE Ok("Project settings retrieved successfully", <<settings_result[1]>>)

GetProjectSettings(p) ==
    \E clerk_id \in Tenants, project_id \in ReqProjectIds, f \in {"ok", "raise"} :
        /\ ArriveCall(p, "get_project_settings",
                      [clerk_id |-> clerk_id, project_id |-> project_id], f)
        /\ IF f = "raise"
           THEN Return(p, HTTPException(500,
                    "An internal server error occurred while retrieving project settings"))
           ELSE Return(p, GetProjectSettingsOutcome(project_settings, project_id, clerk_id))
        /\ loc' = [loc EXCEPT ![p] = NoLoc]
        /\ UNCHANGED storeVars

-----------------------------------------------------------------------------
(* GET /api/projects/{project_id}/files *)

GetProjectFiles(p) ==
    \E clerk_id \in Tenants, project_id \in ReqProjectIds, f \in {"ok", "raise"} :
        /\ ArriveCall(p, "get_project_files",
                      [clerk_id |-> clerk_id, project_id |-> project_id], f)
        /\ IF f = "raise"
           THEN Return(p, HTTPException(500, "Failed to get project files"))
           ELSE Return(p, Ok("Project files retrieved successfully",
                             DocsSelect(project_documents, project_id, clerk_id)))
        /\ loc' = [loc EXCEPT ![p] = NoLoc]
        /\ UNCHANGED storeVars

\* The ingestion service, which is no part of this file, stores a document
\* of a tenant's own project.
UploadDocument ==
    /\ Len(project_documents) < MaxDocs
    /\ \E i \in 1..Len(projects) :
        project_documents' = Append(project_documents,
            [id |-> Len(project_documents) + 1,
             project_id |-> projects[i].id,
             clerk_id |-> projects[i].clerk_id])
    /\ UNCHANGED <<users, projects, project_settings, chats, next_project_id,
                   next_chat_id, pc, op, arg, loc, resp, fault, nstore, pre>>

-----------------------------------------------------------------------------
(* POST /api/chats *)

ChatTitles == {"Hello"}

\* lines 442-455
CreateChat(p) ==
    \E clerk_id \in Tenants, project_id \in ReqProjectIds, title \in ChatTitles,
       f \in {"ok", "empty", "raise"} :
        /\ f = "ok" => next_chat_id <= MaxChats
        /\ LET refused == f = "ok" /\ FkViolation(projects, project_id) IN
           /\ ArriveCall(p, "create_chat",
                         [clerk_id |-> clerk_id, project_id |-> project_id, title |-> title],
                         IF refused THEN "fk" ELSE f)
           /\ IF f = "ok" /\ ~refused
              THEN LET row == [id |-> next_chat_id, title |-> title,
                               project_id |-> project_id, clerk_id |-> clerk_id] IN
                   /\ chats' = Append(chats, row)
                   /\ next_chat_id' = next_chat_id + 1
                   /\ Return(p, Ok("Chat created successfully", <<row>>))
              ELSE \* the store raised, or result.data[0] raised IndexError
                   /\ Return(p, HTTPException(500, "Failed to create chat"))
                   /\ UNCHANGED <<chats, next_chat_id>>
        /\ loc' = [loc EXCEPT ![p] = NoLoc]
        /\ UNCHANGED <<users, projects, project_settings, project_documents, next_project_id>>

-----------------------------------------------------------------------------
(* DELETE /api/chats/{chat_id} *)

\* lines 463-475: the HTTPException(404) raised inside the try block is
\* itself caught by `except Exception` and leaves as a 500
DeleteChat(p) ==
    \E clerk_id \in Tenants, chat_id \in ReqChatIds, f \in {"ok", "raise"} :
        /\ ArriveCall(p, "delete_chat", [clerk_id |-> clerk_id, chat_id |-> chat_id], f)
        /\ IF f = "raise"
           THEN /\ Return(p, HTTPException(500, "Failed to delete chat: chat_id"))
                /\ UNCHANGED chats
           ELSE LET deleted == ChatsDeleted(chats, chat_id, clerk_id) IN
                /\ chats' = ChatsDelete(chats, chat_id, clerk_id)
                /\ IF deleted = << >>
                   THEN Return(p, HTTPException(500, "Failed to delete chat: chat_id"))
                   ELSE Return(p, Ok("Chat Deleted Successfully", <<deleted[1]>>))
        /\ loc' = [loc EXCEPT ![p] = NoLoc]
        /\ UNCHANGED <<users, projects, project_settings, project_documents,
                       next_project_id, next_chat_id>>

-----------------------------------------------------------------------------
(* PUT /api/projects/{project_id}/settings *)

\* lines 523-524: every exception, the handler's own HTTPException(404)
\* included, leaves as a 500
UpdateSettingsError == HTTPException(500, "Failed to update project settings")

\* lines 499-503: a body that class ProjectSettings does not validate is
\* answered with 422 before the handler's body runs
UpdateSettingsRejected(p, ids, bodies) ==
    \E clerk_id \in Tenants, project_id \in ids, settings \in bodies :
        /\ ~ProjectSettingsValid(settings)
        /\ Arrive(p, "update_project_settings",
                  [clerk_id |-> clerk_id, project_id |-> project_id,
                   settings |-> settings])
        /\ Return(p, HTTPException(422, "Field required"))
        /\ UNCHANGED storeVars

\* lines 505-510: step 1, the ownership check
UpdateSettingsVerify(p, ids, bodies) ==
    \E clerk_id \in Tenants, project_id \in ids, settings \in bodies,
       f \in {"ok", "raise"} :
        /\ ProjectSettingsValid(settings)
        /\ ArriveCall(p, "update_project_settings",
                      [clerk_id |-> clerk_id, project_id |-> project_id,
                       settings |-> settings], f)
        /\ IF f = "raise" \/ ProjectsSelectOwned(projects, project_id, clerk_id) = << >>
           THEN Return(p, UpdateSettingsError)
           ELSE Goto(p, "us_update")
        /\ loc' = [loc EXCEPT ![p] = NoLoc]
        /\ UNCHANGED storeVars

\* lines 512-521: step 2, the update
UpdateSettingsUpdate(p) ==
    /\ pc[p] = "us_update"
    /\ \E f \in {"ok", "raise"} :
        /\ StoreCall(p, f)
        /\ IF f = "raise"
           THEN /\ Return(p, UpdateSettingsError)
                /\ UNCHANGED project_settings
           ELSE LET updated == SettingsUpdate(project_settings, arg[p].project_id,
                                              arg[p].settings)
                    result == SettingsSelect(updated, arg[p].project_id)
                IN  /\ project_settings' = updated
                    /\ IF result = << >>
                       THEN Return(p, UpdateSettingsError)
                       ELSE Return(p, Ok("Project settings updated successfully",
                                         <<result[1]>>))
    /\ UNCHANGED <<users, projects, chats, project_documents, next_project_id,
                   next_chat_id, op, arg, loc, pre>>

\* the handler, its path parameter drawn from ids and its body from bodies
UpdateProjectSettings(p, ids, bodies) ==
    UpdateSettingsVerify(p, ids, bodies) \/ UpdateSettingsUpdate(p)

-----------------------------------------------------------------------------

Init ==
    /\ users = << >>
    /\ projects = << >>
    /\ project_settings = << >>
    /\ chats = << >>
    /\ project_documents = << >>
    /\ next_project_id = 1
    /\ next_chat_id = 1
    /\ pc = [p \in Procs |-> "idle"]
    /\ op = [p \in Procs |-> None]
    /\ arg = [p \in Procs |-> NoArg]
    /\ loc = [p \in Procs |-> NoLoc]
    /\ resp = [p \in Procs |-> NoResp]
    /\ fault = [p \in Procs |-> "none"]
    /\ nstore = [p \in Procs |-> 0]
    /\ pre = [p \in Procs |-> [users |-> << >>, created |-> 0, updated |-> << >>,
                               chats |-> << >>, documents |-> << >>]]

\* The webhook handler under concurrent deliveries.
NextWebhook == \E p \in Procs : Webhook(p, RacingPayloads)

SpecWebhook == Init /\ [][NextWebhook]_vars

\* The webhook handler under sequential deliveries: one request at a time.
NextWebhookSeq == Webhook(1, Payloads)

SpecWebhookSeq == Init /\ [][NextWebhookSeq]_vars

\* the request body of the scenario of the specification's section 8
DemoInput == {[name |-> "Demo", description |-> ""]}

\* The project and settings API, one request at a time.
Next ==
    \/ GetProjects(1)
    \/ CreateProject(1, DemoInput)
    \/ DeleteProject(1, ReqProjectIds)
    \/ GetProject(1)
    \/ GetProjectSettings(1)
    \/ UpdateProjectSettings(1, ReqProjectIds, {CustomSettings})

Spec == Init /\ [][Next]_vars

\* Projects and their settings, every request body, one request at a time.
NextSettings ==
    \/ CreateProject(1, ProjectInputs)
    \/ GetProjectSettings(1)
    \/ UpdateProjectSettings(1, ReqProjectIds, SettingsInputs)

SpecSettings == Init /\ [][NextSettings]_vars

\* The replacement of settings by complete and incomplete bodies, one
\* request at a time.
NextUpdate ==
    \/ CreateProject(1, DemoInput)
    \/ GetProjectSettings(1)
    \/ UpdateProjectSettings(1, ReqProjectIds, {CustomSettings})
    \/ UpdateSettingsRejected(1, ReqProjectIds, PartialSettingsInputs)

SpecUpdate == Init /\ [][NextUpdate]_vars

\* The creation of projects from valid and invalid bodies, one request at a
\* time.
NextCreate ==
    \/ CreateProject(1, DemoInput \cup InvalidProjectInputs)
    \/ CreateProjectRejected(1, InvalidProjectInputs)
    \/ GetProject(1)
    \/ GetProjectSettings(1)

SpecCreate == Init /\ [][NextCreate]_vars

\* Two requests at a time, each a create_project or a delete_project.
NextRace ==
    \E p \in 1..2 :
        \/ CreateProject(p, DemoInput)
        \/ DeleteProject(p, 1..MaxProjects)

SpecRace == Init /\ [][NextRace]_vars

\* Projects with their chats and documents, one request at a time.
NextChats ==
    \/ CreateProject(1, DemoInput)
    \/ DeleteProject(1, ReqProjectIds)
    \/ GetProject(1)
    \/ GetProjectSettings(1)
    \/ UpdateProjectSettings(1, ReqProjectIds, {CustomSettings})
    \/ GetProjectChats(1)
    \/ GetProjectFiles(1)
    \/ CreateChat(1)
    \/ DeleteChat(1)
    \/ UploadDocument

SpecChats == Init /\ [][NextChats]_vars

\* The writers of projects and settings under concurrent requests.
NextConc ==
    \E p \in Procs :
        \/ CreateProject(p, DemoInput)
        \/ DeleteProject(p, 1..MaxProjects)
        \/ UpdateProjectSettings(p, 1..MaxProjects, {CustomSettings})

SpecConc == Init /\ [][NextConc]_vars

-----------------------------------------------------------------------------
(* Claims about the webhook handler *)

\* a tenant row with this clerk id is in the table
HasUser(tbl, clerk_id) == \E i \in 1..Len(tbl) : tbl[i].clerk_id = clerk_id

\* the number of tenant rows with this clerk id
UserRows(tbl, clerk_id) == Cardinality({i \in 1..Len(tbl) : tbl[i].clerk_id = clerk_id})

\* slot p holds a finished webhook request
WebhookDone(p) == pc[p] = "done" /\ op[p] = "webhook"

\* a well-formed 'user.created' event: a dict with a dict "data" and a string id
ValidCreated(payload) ==
    /\ payload.is_dict
    /\ payload.type = "user.created"
    /\ payload.data = "dict"
    /\ payload.id \in Tenants

\* C5: sequential deliveries of the same 'user.created' event that meet no
\* store failure: the delivery that finds no row of the identifier reports
\* "created" and adds exactly one row; every delivery that finds the row
\* reports "already exists" and leaves the table as it was; afterwards exactly
\* one row of the identifier exists.
C5_SequentialReplay ==
    \A p \in Procs :
        (WebhookDone(p) /\ ValidCreated(arg[p].payload) /\ fault[p] = "none") =>
            LET clerk_id == arg[p].payload.id IN
            /\ UserRows(users, clerk_id) = 1
            /\ IF HasUser(pre[p].users, clerk_id)
               THEN /\ resp[p].status = 200
                    /\ resp[p].message = "User already exists"
                    /\ users = pre[p].users
               ELSE /\ resp[p].status = 200
                    /\ resp[p].message = "User created successfully"
                    /\ resp[p].data = <<[clerk_id |-> clerk_id]>>
                    /\ users = Append(pre[p].users, [clerk_id |-> clerk_id])

\* a replayed delivery found the row of the first one, with another tenant present
C5_Witness ==
    \E p \in Procs :
        /\ WebhookDone(p) /\ ValidCreated(arg[p].payload) /\ fault[p] = "none"
        /\ resp[p].message = "User already exists"
        /\ Len(users) = 2

\* C6: in every reachable state, under concurrent deliveries for the same
\* identifier, at most one tenant row exists per identifier (the store
\* enforcing uniqueness of users.clerk_id).
C6_AtMostOneTenantRow ==
    \A clerk_id \in Tenants : UserRows(users, clerk_id) <= 1

\* two deliveries for one identifier both saw "not found" and both inserted
C6_Witness ==
    \E p, q \in Procs :
        /\ p # q
        /\ WebhookDone(p) /\ WebhookDone(q)
        /\ arg[p].payload = arg[q].payload
        /\ nstore[p] = 2 /\ nstore[q] = 2
        /\ fault[p] = "none" /\ fault[q] = "duplicate"

\* C7: the delivery whose insert the store refuses as a duplicate returns the
\* "already exists" success outcome.
C7_DuplicateIsAlreadyExists ==
    \A p \in Procs :
        (WebhookDone(p) /\ fault[p] = "duplicate") =>
            /\ resp[p].status = 200
            /\ resp[p].message = "User already exists"

\* C8: a payload without a declared event type is rejected with a 4xx
\* outcome, and no store call is made for it.
C8_AbsentTypeRejected ==
    \A p \in Procs :
        (WebhookDone(p) /\ arg[p].payload.is_dict /\ arg[p].payload.type = None) =>
            /\ resp[p].status \in 400..499
            /\ nstore[p] = 0

\* C9: an event whose type is present and is not 'user.created' succeeds as
\* "ignored" whatever else the payload holds, issues no store call and leaves
\* the tenant rows as they were.
C9_OtherTypeIgnored ==
    \A p \in Procs :
        (/\ WebhookDone(p)
         /\ arg[p].payload.is_dict
         /\ arg[p].payload.type \notin {None, "user.created"}) =>
            /\ resp[p].status = 200
            /\ resp[p].message = "Event type 'user.updated' ignored"
            /\ nstore[p] = 0
            /\ fault[p] = "none"
            /\ users = pre[p].users

\* a 'user.updated' event without usable data was ignored while a tenant exists
C9_Witness ==
    \E p \in Procs :
        /\ WebhookDone(p)
        /\ arg[p].payload.type = "user.updated"
        /\ arg[p].payload.data = "not-a-dict"
        /\ resp[p].status = 200
        /\ users # << >>

-----------------------------------------------------------------------------
(* Claims about the project API *)

\* slot p holds a finished request of handler o
Done(p, o) == pc[p] = "done" /\ op[p] = o

\* a project row with this id is in the table
HasProject(project_id) == \E i \in 1..Len(projects) : projects[i].id = project_id

\* the project with this id exists and belongs to somebody else
Foreign(project_id, clerk_id) ==
    \E i \in 1..Len(projects) :
        projects[i].id = project_id /\ projects[i].clerk_id # clerk_id

\* the store has never handed out this id
NeverExisted(project_id) == project_id >= next_project_id

\* C1: get_project and delete_project for a project of another tenant
\* return the same 404 outcome, in status, message and data, as for an id
\* that no tenant's project ever had (the store having answered).
C1_ForeignAsUnknown ==
    \A p \in Procs :
        (/\ pc[p] = "done"
         /\ op[p] \in {"get_project", "delete_project"}
         /\ fault[p] = "none"
         /\ \/ Foreign(arg[p].project_id, arg[p].clerk_id)
            \/ NeverExisted(arg[p].project_id)) =>
            /\ resp[p].status = 404
            /\ resp[p].data = << >>
            /\ resp[p].message =
                 IF op[p] = "get_project"
                 THEN "Project not found or you don't have permission to access it"
                 ELSE "Project not found or you don't have permission to delete it"

\* a tenant asked to delete another tenant's existing project and got the 404
C1_Witness ==
    \E p \in Procs :
        /\ Done(p, "delete_project")
        /\ fault[p] = "none"
        /\ Foreign(arg[p].project_id, arg[p].clerk_id)
        /\ resp[p].status = 404

\* the handlers that only read
ReadOps == {"get_projects", "get_project", "get_project_chats",
            "get_project_files", "get_project_settings"}

\* C2: no read returns to a tenant a row of another tenant: a project, chat
\* or document row of another owner, or the settings row of a project of
\* another owner.
C2_ReadsTenantScoped ==
    \A p \in Procs :
        (pc[p] = "done" /\ op[p] \in ReadOps /\ resp[p].status = 200) =>
            \A i \in 1..Len(resp[p].data) :
                IF op[p] = "get_project_settings"
                THEN ~Foreign(resp[p].data[i].project_id, arg[p].clerk_id)
                ELSE resp[p].data[i].clerk_id = arg[p].clerk_id

\* create_project inserted its project row and its settings insert failed
\* (returned no row, or raised), the compensating delete itself not failing
SettingsInsertFailed(p) ==
    /\ Done(p, "create_project")
    /\ loc[p].project_id # 0
    /\ nstore[p] >= 2
    /\ fault[p] # "none"
    /\ ~(nstore[p] = 3 /\ fault[p] = "raise")

\* C3: when the settings insert of create_project fails, the project row of
\* the same call is gone when the call returns, get_project for it gives 404
\* and the caller gets the "rolled back" error.
C3_FailedSettingsRolledBack ==
    \A p \in Procs :
        SettingsInsertFailed(p) =>
            /\ ~HasProject(loc[p].project_id)
            /\ GetProjectOutcome(projects, loc[p].project_id, arg[p].clerk_id).status = 404
            /\ resp[p].status = 422
            /\ resp[p].message =
                 "Failed to create project settings - project creation rolled back"

\* the number of settings rows that reference this project
SettingsRows(project_id) ==
    Cardinality({j \in 1..Len(project_settings) :
                    project_settings[j].project_id = project_id})

\* C4: whenever no create_project is between its project insert and its
\* settings insert or compensation, every project row has exactly one
\* settings row.
C4_OneSettingsPerProject ==
    (\A p \in Procs : pc[p] \notin {"cp_settings", "cp_rollback"}) =>
        \A i \in 1..Len(projects) : SettingsRows(projects[i].id) = 1

\* the default configuration of the specification's section 4.2
DocumentedDefaults ==
    [embedding_model |-> "text-embedding-3-large",
     rag_strategy |-> "basic",
     agent_type |-> "agentic",
     chunks_per_search |-> 10,
     final_context_size |-> 5,
     similarity_threshold |-> "0.3",
     number_of_queries |-> 5,
     reranking_enabled |-> TRUE,
     reranking_model |-> "rerank-english-v3.0",
     vector_weight |-> "0.7",
     keyword_weight |-> "0.3"]

\* C10: a successful create_project returns and stores a project row with
\* the given name, description and owner, and the get_project_settings that
\* follows it for the returned id (the store answering) returns exactly one
\* settings row, of that project, holding the documented defaults.
C10_CreateThenGetDefaults ==
    \A p \in Procs :
        /\ (Done(p, "create_project") /\ resp[p].status = 200) =>
              /\ Len(resp[p].data) = 1
              /\ resp[p].data[1].name = arg[p].project.name
              /\ resp[p].data[1].description = arg[p].project.description
              /\ resp[p].data[1].clerk_id = arg[p].clerk_id
              /\ \E i \in 1..Len(projects) : projects[i] = resp[p].data[1]
              /\ SettingsRows(resp[p].data[1].id) = 1
        /\ (/\ Done(p, "get_project_settings")
            /\ fault[p] = "none"
            /\ pre[p].created = arg[p].project_id) =>
              /\ resp[p].status = 200
              /\ resp[p].data =
                   <<[project_id |-> arg[p].project_id, cfg |-> DocumentedDefaults]>>

\* the settings of the project "Plan", just created as the second project,
\* were read back
C10_Witness ==
    \E p \in Procs :
        /\ Done(p, "get_project_settings")
        /\ fault[p] = "none"
        /\ pre[p].created = arg[p].project_id
        /\ resp[p].status = 200
        /\ \E i \in 1..Len(projects) :
              /\ projects[i].id = arg[p].project_id
              /\ projects[i].name = "Plan"
              /\ projects[i].clerk_id = "user_B"
        /\ Len(projects) = 2

\* the project with this id existed and has been deleted: ids are handed out
\* in order and never again
WasDeleted(project_id) == project_id < next_project_id /\ ~HasProject(project_id)

\* no settings, chat or document row references the project
NoDependents(project_id) ==
    /\ \A i \in 1..Len(project_settings) : project_settings[i].project_id # project_id
    /\ \A i \in 1..Len(chats) : chats[i].project_id # project_id
    /\ \A i \in 1..Len(project_documents) : project_documents[i].project_id # project_id

\* C11: a delete_project that succeeded returned the project row as it was
\* before the delete, and the project row is gone; no settings, chat or
\* document row of a deleted project is left; and a get_project or a
\* get_project_settings for a deleted project that the store answered
\* returns 404.
C11_DeleteCascades ==
    /\ \A p \in Procs :
          (Done(p, "delete_project") /\ resp[p].status = 200) =>
              /\ resp[p].data = loc[p].project_result
              /\ Len(resp[p].data) = 1
              /\ resp[p].data[1].id = arg[p].project_id
              /\ resp[p].data[1].clerk_id = arg[p].clerk_id
              /\ ~HasProject(arg[p].project_id)
    /\ \A project_id \in 1..MaxProjects :
          WasDeleted(project_id) => NoDependents(project_id)
    /\ \A p \in Procs :
          (/\ pc[p] = "done"
           /\ op[p] \in {"get_project", "get_project_settings"}
           /\ fault[p] = "none"
           /\ WasDeleted(arg[p].project_id)) => resp[p].status = 404

\* the owner deleted a project that had a settings row, a chat and a
\* document, and none of them is left
C11_Witness ==
    \E p \in Procs :
        /\ Done(p, "delete_project")
        /\ resp[p].status = 200
        /\ \E i \in 1..Len(pre[p].chats) :
              pre[p].chats[i].project_id = arg[p].project_id
        /\ \E i \in 1..Len(pre[p].documents) :
              pre[p].documents[i].project_id = arg[p].project_id
        /\ NoDependents(arg[p].project_id)
        /\ WasDeleted(arg[p].project_id)

\* a get_project_settings for a deleted project was answered
C11_LaterGet ==
    \E p \in Procs :
        /\ Done(p, "get_project_settings")
        /\ fault[p] = "none"
        /\ WasDeleted(arg[p].project_id)

\* C12: an error that a handler raises itself leaves with its own 4xx
\* status: an update_project_settings or a delete_chat that the store
\* answered and that did not succeed (the project is not the caller's, the
\* settings row is missing, the chat does not exist or is another tenant's)
\* returns 404.
C12_ClientErrorsKept ==
    \A p \in Procs :
        (/\ pc[p] = "done"
         /\ op[p] \in {"update_project_settings", "delete_chat"}
         /\ fault[p] = "none"
         /\ resp[p].status # 200) => resp[p].status = 404

\* the rows of tbl that a tenant other than clerk_id owns
OthersRows(tbl, clerk_id) ==
    LET Test(r) == r.clerk_id # clerk_id IN SelectSeq(tbl, Test)

\* the settings rows of the projects in projs of tenants other than clerk_id
OthersSettings(tbl, projs, clerk_id) ==
    LET Test(r) == r.project_id \in Ids(OthersRows(projs, clerk_id))
    IN  SelectSeq(tbl, Test)

\* the chats of other tenants that are not attached to a project in projs
\* of clerk_id
OthersChatsElsewhere(tbl, projs, clerk_id) ==
    LET Test(r) == /\ r.clerk_id # clerk_id
                   /\ \A i \in 1..Len(projs) :
                         projs[i].id = r.project_id => projs[i].clerk_id # clerk_id
    IN  SelectSeq(tbl, Test)

\* the tenant whose request a step of the one slot serves
Caller == arg'[1].clerk_id

\* a step leaves the projects of tenants other than its caller, and the
\* settings of those projects, unchanged
OthersProjectsKept ==
    /\ OthersRows(projects', Caller) = OthersRows(projects, Caller)
    /\ OthersSettings(project_settings', projects, Caller)
         = OthersSettings(project_settings, projects, Caller)

\* C13 as stated: no step of a request changes or deletes a project of a
\* tenant other than the caller, the settings of such a project, or a chat
\* of a tenant other than the caller.
C13_OthersRowsKept ==
    [][OthersProjectsKept /\ OthersRows(chats', Caller) = OthersRows(chats, Caller)]_vars

\* C13, amended: no step of a request changes or deletes a project of a
\* tenant other than the caller, the settings of such a project, or a chat
\* of a tenant other than the caller unless the chat is attached to a
\* project of the caller (the cascade of the caller's delete_project
\* removes it); delete_project, update_project_settings and delete_chat
\* called with another tenant's project or chat id change no row of it.
C13_OthersRowsKeptButCascade ==
    [][/\ OthersProjectsKept
       /\ OthersChatsElsewhere(chats', projects, Caller)
            = OthersChatsElsewhere(chats, projects, Caller)]_vars

\* the caller of a delete_project, an update_project_settings or a
\* delete_chat that the store answered names a project, or a chat, of another
\* tenant
CalledWithForeignId(p) ==
    /\ pc[p] = "done"
    /\ fault[p] = "none"
    /\ \/ /\ op[p] \in {"delete_project", "update_project_settings"}
          /\ Foreign(arg[p].project_id, arg[p].clerk_id)
       \/ /\ op[p] = "delete_chat"
          /\ \E i \in 1..Len(chats) :
                chats[i].id = arg[p].chat_id /\ chats[i].clerk_id # arg[p].clerk_id

\* a tenant called delete_chat with the id of another tenant's chat, which
\* is still there
C13_Witness == CalledWithForeignId(1) /\ op[1] = "delete_chat"

\* a tenant called delete_project with the id of another tenant's project
C13_WitnessProject == CalledWithForeignId(1) /\ op[1] = "delete_project"

\* a tenant called update_project_settings with the id of another tenant's
\* project
C13_WitnessSettings == CalledWithForeignId(1) /\ op[1] = "update_project_settings"

\* the request in slot p is a get_project_settings by the tenant, and for
\* the project, of the update_project_settings that succeeded just before it
FollowsUpdate(p) ==
    /\ Done(p, "get_project_settings")
    /\ fault[p] = "none"
    /\ pre[p].updated # << >>
    /\ pre[p].updated[1].clerk_id = arg[p].clerk_id
    /\ pre[p].updated[1].project_id = arg[p].project_id

\* the step ends an update_project_settings that the store answered and
\* that did not succeed: its body lacks a field, the project is not the
\* caller's, or the project has no settings row
UpdateRejected ==
    /\ op'[1] = "update_project_settings"
    /\ pc'[1] = "done"
    /\ fault'[1] = "none"
    /\ resp'[1].status # 200

\* C14: an update_project_settings that succeeds returns the settings row
\* with exactly the eleven values of its body, and the caller's
\* get_project_settings for the same project right after it returns exactly
\* that row; the step that rejects an update_project_settings (a body that
\* lacks one of the eleven fields, a project that is not the caller's, no
\* settings row) leaves every settings row as it was.
C14_AllOrNothing ==
    /\ [](\A p \in Procs :
            /\ (Done(p, "update_project_settings") /\ resp[p].status = 200) =>
                  /\ DOMAIN arg[p].settings = SettingsFields
                  /\ resp[p].data = <<[project_id |-> arg[p].project_id,
                                       cfg |-> arg[p].settings]>>
                  /\ SettingsSelect(project_settings, arg[p].project_id) = resp[p].data
            /\ FollowsUpdate(p) =>
                  /\ resp[p].status = 200
                  /\ resp[p].data = <<[project_id |-> arg[p].project_id,
                                       cfg |-> pre[p].updated[1].cfg]>>)
    /\ [][UpdateRejected => project_settings' = project_settings]_vars

\* the settings of a project were replaced by a body that differs from them
\* in every field, and then read back
C14_Witness ==
    /\ FollowsUpdate(1)
    /\ resp[1].status = 200
    /\ pre[1].updated[1].cfg = CustomSettings

\* an update_project_settings whose body lacks a field was rejected while a
\* settings row exists
C14_RejectedBody ==
    /\ Done(1, "update_project_settings")
    /\ ~ProjectSettingsValid(arg[1].settings)
    /\ resp[1].status = 422
    /\ SettingsRows(arg[1].project_id) = 1

\* an update_project_settings for an owned project without a settings row
\* was rejected
C14_RejectedNoRow ==
    /\ Done(1, "update_project_settings")
    /\ fault[1] = "none"
    /\ nstore[1] = 2
    /\ resp[1].status # 200

\* the body of the create_project in slot p has no name or an empty one, or
\* the store refused its insert for a constraint
InvalidCreate(p) ==
    /\ Done(p, "create_project")
    /\ \/ ~ProjectCreateValid(arg[p].project)
       \/ arg[p].project.name = ""
       \/ fault[p] = "constraint"

\* C15: a create_project whose body has no name or an empty name, or whose
\* insert the store refuses for a constraint, returns 422, and no project
\* row and no settings row of the call is left.
C15_InvalidCreateIs422 ==
    \A p \in Procs :
        InvalidCreate(p) =>
            /\ resp[p].status = 422
            /\ loc[p].project_id = 0
                 \/ (~HasProject(loc[p].project_id) /\ SettingsRows(loc[p].project_id) = 0)

\* a 'user.created' event whose "data" is absent, empty or not an object, or
\* whose "id" in it is absent, empty or not a string
MalformedCreated(payload) ==
    /\ payload.is_dict
    /\ payload.type = "user.created"
    /\ \/ payload.data \in {None, "empty-dict", "not-a-dict"}
       \/ payload.id \in {None, "", "not-a-str"}

\* C16: a 'user.created' event whose data object or identifier is absent,
\* empty or of the wrong type is answered with 400 without any store call,
\* and the tenant rows are as they were when it arrived.
C16_MalformedRejectedEarly ==
    \A p \in Procs :
        (WebhookDone(p) /\ MalformedCreated(arg[p].payload)) =>
            /\ resp[p].status = 400
            /\ nstore[p] = 0
            /\ users = pre[p].users

\* an event with an empty identifier was rejected while a tenant row exists
C16_Witness ==
    \E p \in Procs :
        /\ WebhookDone(p)
        /\ arg[p].payload.type = "user.created"
        /\ arg[p].payload.data = "dict"
        /\ arg[p].payload.id = ""
        /\ resp[p].status = 400
        /\ users # << >>

\* an event with an empty data object was rejected while a tenant row exists
C16_WitnessData ==
    \E p \in Procs :
        /\ WebhookDone(p)
        /\ arg[p].payload.type = "user.created"
        /\ arg[p].payload.data = "empty-dict"
        /\ resp[p].status = 400
        /\ users # << >>

\* the step is one of the request in slot p
SlotStepped(p) ==
    <<pc[p], op[p], arg[p], nstore[p], resp[p], fault[p]>>'
        # <<pc[p], op[p], arg[p], nstore[p], resp[p], fault[p]>>

\* the project rows other than the one with this id
ProjectsBut(tbl, project_id) ==
    LET Test(r) == r.id # project_id IN SelectSeq(tbl, Test)

\* the settings rows other than those of the project with this id
SettingsBut(tbl, project_id) ==
    LET Test(r) == r.project_id # project_id IN SelectSeq(tbl, Test)

\* C17: every step of a create_project, its compensating delete included,
\* and whatever other create_project calls run at the same time, leaves
\* every project row and every settings row other than those of the project
\* that the same call inserted unchanged.
C17_RollbackScoped ==
    [][\A p \in Procs :
          (SlotStepped(p) /\ op'[p] = "create_project") =>
              /\ ProjectsBut(projects', loc'[p].project_id)
                   = ProjectsBut(projects, loc'[p].project_id)
              /\ SettingsBut(project_settings', loc'[p].project_id)
                   = SettingsBut(project_settings, loc'[p].project_id)]_vars

\* a create_project rolled its project back while the project that another
\* create_project inserted at the same time, and its settings, are there
C17_Witness ==
    \E p, q \in Procs :
        /\ p # q
        /\ Done(p, "create_project")
        /\ resp[p].status = 422
        /\ nstore[p] = 3
        /\ ~HasProject(loc[p].project_id)
        /\ op[q] = "create_project"
        /\ loc[q].project_id > loc[p].project_id
        /\ HasProject(loc[q].project_id)
        /\ SettingsRows(loc[q].project_id) = 1

\* slots p and q hold finished delete_project requests of the same tenant
\* for the same project, that both passed the ownership check and whose
\* store calls all answered
SameDeleteTwice(p, q) ==
    /\ p # q
    /\ Done(p, "delete_project") /\ Done(q, "delete_project")
    /\ arg[p] = arg[q]
    /\ nstore[p] = 2 /\ nstore[q] = 2
    /\ fault[p] = "none" /\ fault[q] = "none"

\* C18: of two delete_project calls of the owner for the same project that
\* both passed the ownership check before either deleted, exactly one
\* returns 200 with the project row and the other returns 404; neither
\* returns a 5xx, and the project is gone.
C18_OneDeleteWins ==
    \A p, q \in 1..2 :
        SameDeleteTwice(p, q) =>
            /\ {resp[p].status, resp[q].status} = {200, 404}
            /\ resp[p].status = 200 =>
                  /\ resp[p].data = loc[p].project_result
                  /\ resp[p].data[1].id = arg[p].project_id
                  /\ resp[p].data[1].clerk_id = arg[p].clerk_id
                  /\ resp[q].data = << >>
            /\ ~HasProject(arg[p].project_id)

\* two such calls have returned, the first with 404
C18_Witness ==
    /\ SameDeleteTwice(1, 2)
    /\ resp[1].status = 404
    /\ loc[1].project_result = loc[2].project_result

\* the update_project_settings in slot p passed the ownership check of
\* lines 507-510, a delete_project in another slot has removed its project,
\* and its update, which the store answered, matched no row
UpdateAfterDelete(p) ==
    /\ Done(p, "update_project_settings")
    /\ nstore[p] = 2
    /\ fault[p] = "none"
    /\ resp[p].status # 200
    /\ WasDeleted(arg[p].project_id)
    /\ \E q \in Procs \ {p} :
          /\ Done(q, "delete_project")
          /\ resp[q].status = 200
          /\ arg[q].project_id = arg[p].project_id

\* C19: every settings row references a project row and no project has
\* more than one settings row; an update_project_settings whose update runs
\* after a delete_project removed its project returns 404.
C19_NoOrphanSettings ==
    /\ \A i \in 1..Len(project_settings) : HasProject(project_settings[i].project_id)
    /\ \A project_id \in 1..MaxProjects : SettingsRows(project_id) <= 1
    /\ \A p \in Procs : UpdateAfterDelete(p) => resp[p].status = 404

\* the part of C19 about the rows: every settings row references a project
\* row and no project has more than one settings row
C19_RowsPart ==
    /\ \A i \in 1..Len(project_settings) : HasProject(project_settings[i].project_id)
    /\ \A project_id \in 1..MaxProjects : SettingsRows(project_id) <= 1

\* an update ran after the delete of its project and left no settings row
C19_Raced ==
    \E p \in Procs :
        /\ UpdateAfterDelete(p)
        /\ SettingsRows(arg[p].project_id) = 0

====
